---- MODULE Spec2Model ----
(***************************************************************************)
(* Model of the escrow bot in src/main.py: the deal table and the balance   *)
(* table of exchange.db, the background poller periodic_ton_checker, the    *)
(* callback handlers that write deal status, and the pure helpers           *)
(* fetch_transactions_for_address and check_payment_for_deal.               *)
(*                                                                         *)
(* Python values are tagged records, so that isinstance tests, `is None`   *)
(* and truthiness (`a or b`) can be computed as the interpreter does.       *)
(* Text is a sequence of character codes: 0..9 are the decimal digits,      *)
(* 10..15 the letters a..f (deal ids are uuid4().hex), larger codes other   *)
(* letters.  A number is m * 10^e (decimal mantissa and exponent), which    *)
(* keeps nanoTON magnitudes such as 10^10 exact without wide integers.      *)
(***************************************************************************)
EXTENDS Integers, Sequences, FiniteSets, TLC

(***************************************************************************)
(* Bounds of the model.                                                     *)
(***************************************************************************)
MaxDeals   == 2      \* deals ever created
MaxUsers   == 2      \* telegram users
MaxAmount  == 1      \* largest amount typed in receive_amount
MaxBatch   == 2      \* records in one provider response (pure-function specs)

Users   == 1..MaxUsers
Amounts == 1..MaxAmount

(***************************************************************************)
(* Python values.                                                           *)
(***************************************************************************)
None         == [t |-> "None"]
PyStr(s)     == [t |-> "str", v |-> s]
PyInt(n)     == [t |-> "int", v |-> n]
PyNum(m, e)  == [t |-> "num", m |-> m, e |-> e]      \* m * 10^e, m >= 0
PyDict(kv)   == [t |-> "dict", v |-> kv]             \* <<key, value>> pairs, insertion order
PyList(s)    == [t |-> "list", v |-> s]

IsNone(x) == x.t = "None"
IsStr(x)  == x.t = "str"
IsDict(x) == x.t = "dict"
IsList(x) == x.t = "list"
IsNum(x)  == x.t = "num"

\* bool(x): None, 0, "", {} and [] are falsy
Truthy(x) ==
    CASE x.t = "None" -> FALSE
      [] x.t = "str"  -> Len(x.v) > 0
      [] x.t = "int"  -> x.v # 0
      [] x.t = "num"  -> x.m # 0
      [] x.t = "dict" -> Len(x.v) > 0
      [] x.t = "list" -> Len(x.v) > 0
      [] OTHER        -> TRUE

\* a or b
Or(a, b) == IF Truthy(a) THEN a ELSE b

\* key in d
HasKey(d, k) == \E i \in 1..Len(d.v) : d.v[i][1] = k

\* d.get(k)
Get(d, k) ==
    IF HasKey(d, k)
      THEN d.v[CHOOSE i \in 1..Len(d.v) : d.v[i][1] = k][2]
      ELSE None

RECURSIVE Pow10(_)
Pow10(n) == IF n = 0 THEN 1 ELSE 10 * Pow10(n - 1)

RECURSIVE Digits(_)
Digits(n) == IF n < 10 THEN <<n>> ELSE Append(Digits(n \div 10), n % 10)

\* From this exponent on, m * 10^e (m >= 1) exceeds every amount and time of the model
\* (and no longer fits TLC's 32-bit integers)
BigExp == Len(Digits(2147483647)) - 1

\* the integer value of a number, for numbers below 10^BigExp
NumVal(x) == x.m * Pow10(x.e)

\* x >= n for a number x and a small integer n (|n| < 10^BigExp), exact
NumGeqInt(x, n) ==
    IF x.m = 0 THEN 0 >= n
    ELSE IF x.e >= BigExp THEN TRUE
    ELSE NumVal(x) >= n

RECURSIVE Zeros(_)
Zeros(n) == IF n = 0 THEN <<>> ELSE <<0>> \o Zeros(n - 1)

\* str(x) for the values a hash field can hold: text stays, an integer prints in decimal
StrOf(x) ==
    CASE x.t = "str" -> x
      [] x.t = "int" -> PyStr(Digits(x.v))
      [] x.t = "num" -> PyStr(IF x.m = 0 THEN <<0>> ELSE Digits(x.m) \o Zeros(x.e))
      [] OTHER       -> PyStr(<<99>>)

IsDigitText(s) == Len(s) > 0 /\ \A i \in 1..Len(s) : s[i] \in 0..9

RECURSIVE TrailingZeros(_)
TrailingZeros(s) ==
    IF Len(s) = 0 \/ s[Len(s)] # 0 THEN 0
    ELSE 1 + TrailingZeros(SubSeq(s, 1, Len(s) - 1))

RECURSIVE DigitsVal(_)
DigitsVal(s) ==
    IF Len(s) = 0 THEN 0 ELSE 10 * DigitsVal(SubSeq(s, 1, Len(s) - 1)) + s[Len(s)]

\* the number written by a text of decimal digits
ParseDigits(s) ==
    LET z == TrailingZeros(s)
        head == SubSeq(s, 1, Len(s) - z)
    IN  IF DigitsVal(head) = 0 THEN PyNum(0, 0) ELSE PyNum(DigitsVal(head), z)

\* float(x): <<ok, value>>; ok is FALSE where Python raises (TypeError, ValueError)
Float(x) ==
    CASE x.t = "num" -> <<TRUE, x>>
      [] x.t = "int" -> <<TRUE, PyNum(x.v, 0)>>
      [] x.t = "str" -> IF IsDigitText(x.v) THEN <<TRUE, ParseDigits(x.v)>> ELSE <<FALSE, None>>
      [] OTHER       -> <<FALSE, None>>

\* int(x): <<ok, value>>; ok is FALSE where Python raises
Int_(x) ==
    CASE x.t = "num" -> <<TRUE, PyInt(NumVal(x))>>
      [] x.t = "int" -> <<TRUE, x>>
      [] x.t = "str" -> IF IsDigitText(x.v) THEN <<TRUE, PyInt(DigitsVal(x.v))>> ELSE <<FALSE, None>>
      [] OTHER       -> <<FALSE, None>>

\* needle in text (substring test of str.__contains__)
Contains(text, needle) ==
    \E k \in 0..(Len(text) - Len(needle)) : SubSeq(text, k + 1, k + Len(needle)) = needle

(***************************************************************************)
(* fetch_transactions_for_address: the normaliser of one provider record.   *)
(* NormalizeItem(it) is <<ok, tx>>; ok is FALSE where the body of the loop   *)
(* raises and the record is skipped by `except Exception: continue`.         *)
(***************************************************************************)
ItemHash(it) ==
    Or(Or(Or(Or(Get(it, "hash"), Get(it, "utime")), Get(it, "lt")), Get(it, "id")),
       Get(it, "transaction_id"))

ItemSender(it) ==
    IF IsDict(Get(it, "in_msg"))
      THEN Or(Get(Get(it, "in_msg"), "source"), Get(Get(it, "in_msg"), "from"))
      ELSE Or(Or(Get(it, "src"), Get(it, "source")), Get(it, "from"))

\* out_msgs is a non-empty list
HasOutMsgs(it) == IsList(Get(it, "out_msgs")) /\ Truthy(Get(it, "out_msgs"))

FirstOutMsg(it) == Get(it, "out_msgs").v[1]

ItemRecipient(it) ==
    IF HasOutMsgs(it)
      THEN Or(Or(Get(FirstOutMsg(it), "destination"), Get(FirstOutMsg(it), "to")), None)
      ELSE None

ItemAmt(it) ==
    LET first == IF IsDict(Get(it, "in_msg"))
                   THEN Get(Get(it, "in_msg"), "value")
                   ELSE Or(Get(it, "value"), Get(it, "amount"))
    IN  IF HasOutMsgs(it) /\ IsNone(first)
          THEN Or(Get(FirstOutMsg(it), "value"), Get(FirstOutMsg(it), "amount"))
          ELSE first

ItemMsg(it) ==
    LET inner == IF IsDict(Get(it, "in_msg"))
                   THEN Or(Or(Get(Get(it, "in_msg"), "text"), Get(Get(it, "in_msg"), "message")),
                           Get(Get(it, "in_msg"), "comment"))
                   ELSE None
    IN  IF ~Truthy(inner)
          THEN Or(Or(Or(Get(it, "comment"), Get(it, "message")), Get(it, "body")),
                  Get(it, "payload"))
          ELSE inner

ItemUnixTime(it) ==
    Or(Or(Or(Get(it, "utime"), Get(it, "time")), Get(it, "unix_time")), None)

\* the "normalize amount" block: float(amt), else float((amt or {}).get("amount", 0)), else None
AmountVal(amt) ==
    IF IsNone(amt) THEN None
    ELSE IF Float(amt)[1] THEN Float(amt)[2]
    ELSE LET d == IF Truthy(amt) THEN amt ELSE PyDict(<<>>)
         IN  IF ~IsDict(d) THEN None
             ELSE LET inner == IF HasKey(d, "amount") THEN Get(d, "amount") ELSE PyInt(0)
                  IN  IF Float(inner)[1] THEN Float(inner)[2] ELSE None

NormalizeItem(it) ==
    IF ~IsDict(it) THEN <<FALSE, None>>
    ELSE IF HasOutMsgs(it) /\ ~IsDict(FirstOutMsg(it)) THEN <<FALSE, None>>
    ELSE IF Truthy(ItemUnixTime(it)) /\ ~Int_(ItemUnixTime(it))[1] THEN <<FALSE, None>>
    ELSE <<TRUE,
           [t         |-> "tx",
            hash      |-> IF IsNone(ItemHash(it)) THEN None ELSE StrOf(ItemHash(it)),
            from      |-> ItemSender(it),
            to        |-> ItemRecipient(it),
            amount    |-> AmountVal(ItemAmt(it)),
            message   |-> ItemMsg(it),
            unix_time |-> IF Truthy(ItemUnixTime(it)) THEN Int_(ItemUnixTime(it))[2] ELSE None,
            raw       |-> it]>>

\* the loop `for it in items`: the normalised records, skipped ones left out
RECURSIVE NormalizeItems(_)
NormalizeItems(items) ==
    IF Len(items) = 0 THEN <<>>
    ELSE LET r == NormalizeItem(Head(items))
         IN  (IF r[1] THEN <<r[2]>> ELSE <<>>) \o NormalizeItems(Tail(items))

\* the first value of a dict that is a list, in insertion order; <<>> if none
RECURSIVE FirstListValue(_)
FirstListValue(kv) ==
    IF Len(kv) = 0 THEN <<>>
    ELSE IF IsList(Head(kv)[2]) THEN Head(kv)[2].v
    ELSE FirstListValue(Tail(kv))

\* the envelope probe: "result", "transactions", a top-level list, any list value
EnvelopeItems(data) ==
    IF IsDict(data) /\ HasKey(data, "result") /\ IsList(Get(data, "result"))
      THEN Get(data, "result").v
    ELSE IF IsDict(data) /\ HasKey(data, "transactions") /\ IsList(Get(data, "transactions"))
      THEN Get(data, "transactions").v
    ELSE IF IsList(data) THEN data.v
    ELSE IF IsDict(data) THEN FirstListValue(data.v)
    ELSE <<>>

(***************************************************************************)
(* An HTTP exchange with the provider: session.get raises (network error or *)
(* timeout), or a response arrives with a status and a body; body is None    *)
(* with parsable = FALSE when resp.json() raises.                            *)
(***************************************************************************)
NetworkError == [kind |-> "error"]
HttpResponse(status, parsable, data) ==
    [kind |-> "http", status |-> status, parsable |-> parsable, data |-> data]

\* fetch_transactions_for_address(session, address), given whether TON_API_URL is set
FetchTransactionsForAddress(urlSet, resp) ==
    IF ~urlSet THEN <<>>
    ELSE IF resp.kind = "error" THEN <<>>
    ELSE IF ~resp.parsable THEN <<>>
    ELSE NormalizeItems(EnvelopeItems(resp.data))

(***************************************************************************)
(* check_payment_for_deal.  created_at is the text written by                *)
(* receive_amount, datetime.isoformat() of a UTC time with microseconds;     *)
(* a text fromisoformat() rejects is NotIso.                                  *)
(***************************************************************************)
IsoTime(sec, micro) == [t |-> "iso", sec |-> sec, micro |-> micro]
NotIso == [t |-> "text"]

\* int(datetime.fromisoformat(created_at).replace(tzinfo=utc).timestamp()), 0 on failure
CreatedUnix(created_at) == IF created_at.t = "iso" THEN created_at.sec ELSE 0

\* tx.get("unix_time") or 0
TxTime(tx) == IF Truthy(tx.unix_time) THEN tx.unix_time.v ELSE 0

\* as MemoMatch, but a memo counts only if the amount suffices
MemoMatchNeedsAmount(deal, tx) ==
    /\ IsStr(tx.message) /\ Contains(tx.message.v, deal.id)
    /\ ~IsNone(tx.amount)
    /\ NumGeqInt(tx.amount, deal.amount)

MemoMatch(deal, tx) == IsStr(tx.message) /\ Contains(tx.message.v, deal.id)

\* as AmountTimeMatch, without the test of the time
AmountTimeMatchNoTime(deal, tx) ==
    /\ ~IsNone(tx.amount)
    /\ NumGeqInt(tx.amount, deal.amount)

AmountTimeMatch(deal, tx) ==
    /\ ~IsNone(tx.amount)
    /\ NumGeqInt(tx.amount, deal.amount)
    /\ TxTime(tx) # 0
    /\ TxTime(tx) >= CreatedUnix(deal.created_at)

AmountMatch(deal, tx) ==
    /\ ~IsNone(tx.amount)
    /\ NumGeqInt(tx.amount, deal.amount)

\* the index of the first element of txs satisfying P, 0 if none: `for tx in txs: if P: return tx`
FirstIndex(txs, P(_)) ==
    LET hits == {i \in 1..Len(txs) : P(txs[i])}
    IN  IF hits = {} THEN 0 ELSE CHOOSE i \in hits : \A j \in hits : i <= j

\* as CheckPaymentIndex, without the last fallback loop
CheckPaymentIndexNoFallback(deal, txs) ==
    LET memo(tx)   == MemoMatch(deal, tx)
        recent(tx) == AmountTimeMatch(deal, tx)
    IN  IF FirstIndex(txs, memo) # 0 THEN FirstIndex(txs, memo)
        ELSE FirstIndex(txs, recent)

\* index in txs of the transaction check_payment_for_deal returns, 0 for None
CheckPaymentIndex(deal, txs) ==
    LET memo(tx)   == MemoMatch(deal, tx)
        recent(tx) == AmountTimeMatch(deal, tx)
        amount(tx) == AmountMatch(deal, tx)
    IN  IF FirstIndex(txs, memo) # 0 THEN FirstIndex(txs, memo)
        ELSE IF FirstIndex(txs, recent) # 0 THEN FirstIndex(txs, recent)
        ELSE FirstIndex(txs, amount)

\* as CheckPaymentForDeal, with a payment assumed where the list holds no match
CheckPaymentForDealAssumed(deal, txs) ==
    IF CheckPaymentIndex(deal, txs) = 0
      THEN [t |-> "tx", hash |-> None, from |-> None, to |-> None, amount |-> None,
            message |-> None, unix_time |-> None, raw |-> None]
      ELSE txs[CheckPaymentIndex(deal, txs)]

\* check_payment_for_deal(session, deal) once the fetch has returned txs
CheckPaymentForDeal(deal, txs) ==
    IF CheckPaymentIndex(deal, txs) = 0 THEN None ELSE txs[CheckPaymentIndex(deal, txs)]

(***************************************************************************)
(* The database exchange.db and the poller.                                 *)
(*   deals      the rows of table deals, in insertion order                  *)
(*   balance    column balance of table users (a missing row reads as 0)     *)
(*   pc         where periodic_ton_checker is: "sleep" in asyncio.sleep,     *)
(*              "cycle" inside `for deal in waiting`, suspended at the fetch,*)
(*              "stopped" once the task has ended                            *)
(*   waiting    the rest of the list read by list_waiting_deals()            *)
(* History variables, written but never read by the program's actions:      *)
(*   cycleStart status of every deal when the running cycle read its list,   *)
(*              empty between cycles                                         *)
(*   lastPoll   what the latest step did if it was the poller evaluating a   *)
(*              deal (cycleStart, the list fetched, the match, the writes    *)
(*              that went through), NoPoll after any other step              *)
(*   pollCredits  how often the poller has credited each deal's creator      *)
(*   payBalOpen   whether cb_pay_bal has completed the deal while it was     *)
(*                still open (waiting)                                       *)
(* Columns wallet, description and memo of a deal are left out: wallet is    *)
(* the constant MERCHANT_WALLET, memo equals id, and no handler reads them.  *)
(* The last variable serves the specifications of the pure helpers:         *)
(*   probe      one call of a helper: its arguments, then its result         *)
(***************************************************************************)
VARIABLES deals, balance, pc, waiting, cycleStart, lastPoll, pollCredits, payBalOpen,
          probe

dbVars == <<deals, balance, pc, waiting, cycleStart, lastPoll, pollCredits, payBalOpen>>
vars   == <<dbVars, probe>>

MaxClock == 1      \* seconds the clock of the deal store can show

Clock == {IsoTime(s, 0) : s \in 1..MaxClock}

\* uuid4().hex of the i-th deal created: distinct texts of one length
IdOf(i) == <<i, 10 + i>>

InternalBalance == PyStr(<<18, 11>>)      \* "internal_balance"
Terminal == {"completed", "cancelled"}

DealIndexes == 1..Len(deals)

\* the row WHERE id = deal_id, 0 if there is none
RowOf(deal_id) ==
    IF \E i \in DealIndexes : deals[i].id = deal_id
      THEN CHOOSE i \in DealIndexes : deals[i].id = deal_id
      ELSE 0

\* UPDATE deals SET ... WHERE id = ?  as built by update_deal_status
UpdateDealStatus(row, status, paid_tx, buyer_id, nft_received, seller_received, now) ==
    [row EXCEPT
       !.status          = status,
       !.paid_tx         = IF IsNone(paid_tx) THEN @ ELSE paid_tx,
       !.buyer_id        = IF IsNone(buyer_id) THEN @ ELSE buyer_id,
       !.nft_received    = IF IsNone(nft_received) THEN @ ELSE nft_received.v,
       !.seller_received = IF IsNone(seller_received) THEN @ ELSE seller_received.v,
       !.completed_at    = IF status \in {"completed", "done"} THEN now ELSE @]

PyBool(b) == [t |-> "bool", v |-> b]

\* as IsWaiting, with completed deals selected too
IsWaitingOrCompleted(status) == status \in {"waiting_nft", "waiting_payment", "completed"}

\* the WHERE clause of list_waiting_deals
IsWaiting(status) == status \in {"waiting_nft", "waiting_payment"}

RECURSIVE SelectWaiting(_, _)
SelectWaiting(rows, i) ==
    IF i > Len(rows) THEN <<>>
    ELSE (IF IsWaiting(rows[i].status)
            THEN <<[id |-> rows[i].id, creator_id |-> rows[i].creator_id,
                    amount |-> rows[i].amount, status |-> rows[i].status,
                    created_at |-> rows[i].created_at]>>
            ELSE <<>>) \o SelectWaiting(rows, i + 1)

\* as ListWaitingDeals, with no deal ever selected
ListWaitingDealsNone == <<>>

\* list_waiting_deals()
ListWaitingDeals == SelectWaiting(deals, 1)

\* change_user_balance(user_id, delta)
ChangeUserBalance(bal, user_id, delta) == [bal EXCEPT ![user_id] = @ + delta]

NoPoll == [deal |-> 0, start |-> <<>>, txs |-> <<>>, tx |-> None, matched |-> FALSE, updated |-> FALSE,
           credited |-> FALSE]

NoProbe == [stage |-> "none"]

InitDb ==
    /\ deals = <<>>
    /\ balance = [u \in Users |-> 0]
    /\ pc = "sleep"
    /\ waiting = <<>>
    /\ cycleStart = <<>>
    /\ lastPoll = NoPoll
    /\ pollCredits = [i \in 1..MaxDeals |-> 0]
    /\ payBalOpen = [i \in 1..MaxDeals |-> FALSE]

Init == InitDb /\ probe = NoProbe

(***************************************************************************)
(* What the provider may report to the poller: records in the toncenter     *)
(* shape.  MemoItem(i) is a transfer of 3 carrying deal i's id in its       *)
(* comment, NoIdItem a record with a value but none of the id fields.        *)
(***************************************************************************)
MaxPollItems == 1      \* records in one response to the poller

BoundedSeq(S, n) == UNION {[1..k -> S] : k \in 0..n}

MemoItem(i) ==
    PyDict(<< <<"hash", PyStr(<<16, i>>)>>,
              <<"utime", PyInt(1)>>,
              <<"in_msg", PyDict(<< <<"source", PyStr(<<17>>)>>,
                                    <<"value", PyInt(3)>>,
                                    <<"message", PyStr(<<12>> \o IdOf(i))>> >>)>> >>)

NoIdItem == PyDict(<< <<"value", PyInt(5)>> >>)

PollItems == {MemoItem(i) : i \in 1..MaxDeals} \cup {NoIdItem}

PollResponses ==
    {NetworkError} \cup
    {HttpResponse(200, TRUE, PyDict(<< <<"ok", PyBool(TRUE)>>, <<"result", PyList(items)>> >>)) :
        items \in BoundedSeq(PollItems, MaxPollItems)}

\* the lists fetch_transactions_for_address returns to the poller for these exchanges,
\* with TON_API_URL set or not
PollFetches ==
    {FetchTransactionsForAddress(urlSet, resp) : urlSet \in BOOLEAN, resp \in PollResponses}

(***************************************************************************)
(* periodic_ton_checker                                                     *)
(***************************************************************************)
\* as OnCycleError, with the task ending instead
OnCycleErrorStops == "stopped"

\* where the poller is after an exception left the try block of the loop body: it is
\* caught, the task sleeps 5 s and the loop goes round
OnCycleError == "sleep"

\* while True: waiting = list_waiting_deals(); an empty list sleeps again, and so does a
\* listing that raises (listOk = FALSE)
PollList(listOk) ==
    /\ pc = "sleep"
    /\ IF ~listOk
         THEN pc' = OnCycleError /\ UNCHANGED <<waiting, cycleStart>>
         ELSE IF ListWaitingDeals = <<>>
           THEN UNCHANGED <<pc, waiting, cycleStart>>
           ELSE /\ waiting' = ListWaitingDeals
                /\ pc' = "cycle"
                /\ cycleStart' = [i \in DealIndexes |-> deals[i].status]
    /\ lastPoll' = NoPoll
    /\ UNCHANGED <<deals, balance, pollCredits, payBalOpen>>

PollStart(listOk) == PollList(listOk) /\ UNCHANGED probe

\* as PollCompleteDeals, with the deal left open (waiting_payment) by the write
PollCompleteDealsOpen(deal, tx, updOk, now) ==
    IF updOk /\ RowOf(deal.id) # 0
      THEN [deals EXCEPT ![RowOf(deal.id)] =
              UpdateDealStatus(@, "waiting_payment", tx.hash, None, PyBool(TRUE), PyBool(TRUE), now)]
      ELSE deals

\* The effect on the tables of lines 365-381 for the snapshot `deal` and the matched tx:
\* updOk / credOk tell whether update_deal_status / change_user_balance return or raise.
PollCompleteDeals(deal, tx, updOk, now) ==
    IF updOk /\ RowOf(deal.id) # 0
      THEN [deals EXCEPT ![RowOf(deal.id)] =
              UpdateDealStatus(@, "completed", tx.hash, None, PyBool(TRUE), PyBool(TRUE), now)]
      ELSE deals

PollCompleteBalance(deal, updOk, credOk) ==
    IF updOk /\ credOk
      THEN ChangeUserBalance(balance, deal.creator_id, deal.amount)
      ELSE balance

DealIds == {IdOf(i) : i \in 1..MaxDeals}

\* the values of column status that the program writes or selects
Statuses == {"waiting_nft", "waiting_payment", "paid_pending", "completed", "cancelled"}

\* the amounts receive_amount accepts: float(text) succeeds for negative numbers and zero too
SignedAmounts == (0 - MaxAmount)..MaxAmount

\* the rows list_waiting_deals can return
Snapshots ==
    [id : DealIds, creator_id : Users, amount : SignedAmounts,
     status : {s \in Statuses : IsWaiting(s)}, created_at : Clock]

\* check_payment_for_deal for every such row and every fetched list, tabulated once
PollMatches ==
    {[deal |-> d, txs |-> txs, tx |-> CheckPaymentForDeal(d, txs)] :
        d \in Snapshots, txs \in PollFetches}

\* as PollMatch, with a transaction that some deal already carries as paid_tx not matched again
PollMatchUnused(deal, txs) ==
    LET tx == (CHOOSE r \in PollMatches : r.deal = deal /\ r.txs = txs).tx
    IN  IF ~IsNone(tx) /\ \E i \in DealIndexes : deals[i].paid_tx = tx.hash
          THEN None ELSE tx

\* tx = await check_payment_for_deal(session, deal), when the fetch returns txs
PollMatch(deal, txs) == (CHOOSE r \in PollMatches : r.deal = deal /\ r.txs = txs).tx

\* as PollNotify, with a notification that fails undoing the completion
PollNotifyRollsBack(done, notifyOk) == IF notifyOk THEN done ELSE <<deals, balance>>

\* asyncio.create_task(bot.send_message(...)) after the writes `done` = <<deals, balance>>:
\* the message is sent by a task of its own, so whether it is delivered (notifyOk) neither
\* raises in the poller nor touches the tables
PollNotify(done, notifyOk) == done

\* One iteration of `for deal in waiting`: the fetch returns, the deal is matched and,
\* on a match, completed; no await lies between the fetch's return and the writes.
PollEvaluate(txs, updOk, credOk, notifyOk, now) ==
    /\ pc = "cycle"
    /\ waiting # <<>>
    /\ LET deal == Head(waiting)
           tx   == PollMatch(deal, txs)
           hit  == IsWaiting(deal.status) /\ ~IsNone(tx)
           done == IF hit /\ updOk
                     THEN PollNotify(<<PollCompleteDeals(deal, tx, updOk, now),
                                       PollCompleteBalance(deal, updOk, credOk)>>, notifyOk)
                     ELSE <<deals, balance>>
       IN  /\ deals' = done[1]
           /\ balance' = done[2]
           /\ lastPoll' = [deal |-> RowOf(deal.id), start |-> cycleStart, txs |-> txs, tx |-> tx, matched |-> hit,
                           updated |-> hit /\ updOk, credited |-> hit /\ updOk /\ credOk]
           /\ pollCredits' = IF hit /\ updOk /\ credOk
                               THEN [pollCredits EXCEPT ![RowOf(deal.id)] = @ + 1]
                               ELSE pollCredits
    /\ waiting' = Tail(waiting)
    /\ pc' = IF Tail(waiting) = <<>> THEN "sleep" ELSE "cycle"
    /\ cycleStart' = IF Tail(waiting) = <<>> THEN <<>> ELSE cycleStart
    /\ UNCHANGED payBalOpen

PollDeal(txs, updOk, credOk, notifyOk, now) ==
    PollEvaluate(txs, updOk, credOk, notifyOk, now) /\ UNCHANGED probe

(***************************************************************************)
(* The handlers of the bot that write the tables.  Each runs to its first    *)
(* await after its last write, so each is one step.  The FSM that leads a    *)
(* user to receive_amount holds no deal or balance and is left out.          *)
(***************************************************************************)
\* receive_amount: float(text) succeeded with `amount`; the deal is saved
ReceiveAmount(u, amount, now) ==
    /\ Len(deals) < MaxDeals
    /\ deals' = Append(deals,
          [id |-> IdOf(Len(deals) + 1), creator_id |-> u, amount |-> amount,
           status |-> "waiting_nft", created_at |-> now, paid_tx |-> None,
           buyer_id |-> None, nft_received |-> FALSE, seller_received |-> FALSE,
           completed_at |-> None])
    /\ lastPoll' = NoPoll
    /\ UNCHANGED <<balance, pc, waiting, cycleStart, pollCredits, payBalOpen, probe>>

\* cb_paid_ext: callback "paid_ext:<deal_id>" from user u
CbPaidExt(u, deal_id) ==
    /\ IF RowOf(deal_id) = 0
         THEN UNCHANGED deals
         ELSE deals' = [deals EXCEPT ![RowOf(deal_id)] =
                 UpdateDealStatus(@, "paid_pending", None, PyInt(u), None, None, None)]
    /\ lastPoll' = NoPoll
    /\ UNCHANGED <<balance, pc, waiting, cycleStart, pollCredits, payBalOpen, probe>>

\* the balances after lines 528-529: buyer debited, then creator credited
PayBalBalance(buyer, row) ==
    ChangeUserBalance(ChangeUserBalance(balance, buyer, 0 - row.amount),
                      row.creator_id, row.amount)

\* cb_pay_bal: callback "pay_bal:<deal_id>" from user u
CbPayBal(u, deal_id, now) ==
    /\ IF RowOf(deal_id) = 0 \/ balance[u] < deals[RowOf(deal_id)].amount
         THEN UNCHANGED <<deals, balance, payBalOpen>>
         ELSE /\ balance' = PayBalBalance(u, deals[RowOf(deal_id)])
              /\ deals' = [deals EXCEPT ![RowOf(deal_id)] =
                    UpdateDealStatus(@, "completed", InternalBalance, PyInt(u),
                                     PyBool(TRUE), PyBool(TRUE), now)]
              /\ payBalOpen' = [payBalOpen EXCEPT ![RowOf(deal_id)] =
                    @ \/ IsWaiting(deals[RowOf(deal_id)].status)]
    /\ lastPoll' = NoPoll
    /\ UNCHANGED <<pc, waiting, cycleStart, pollCredits, probe>>

\* as IsCreator, with every user let through
IsCreatorOrAnyone(u, row) == TRUE

\* cb.from_user.id == deal["creator_id"], the test that guards cb_confirm and cb_cancel
IsCreator(u, row) == u = row.creator_id

\* cb_confirm: callback "confirm:<deal_id>" from user u
ConfirmDeal(u, deal_id, now) ==
    /\ IF RowOf(deal_id) = 0 \/ ~IsCreator(u, deals[RowOf(deal_id)])
         THEN UNCHANGED deals
         ELSE deals' = [deals EXCEPT ![RowOf(deal_id)] =
                 UpdateDealStatus(@, "completed", @.paid_tx, @.buyer_id,
                                  PyBool(TRUE), PyBool(TRUE), now)]
    /\ lastPoll' = NoPoll
    /\ UNCHANGED <<balance, pc, waiting, cycleStart, pollCredits, payBalOpen>>

CbConfirm(u, deal_id, now) == ConfirmDeal(u, deal_id, now) /\ UNCHANGED probe

\* cb_cancel: callback "cancel:<deal_id>" from user u
CancelDeal(u, deal_id) ==
    /\ IF RowOf(deal_id) = 0 \/ ~IsCreator(u, deals[RowOf(deal_id)])
         THEN UNCHANGED deals
         ELSE deals' = [deals EXCEPT ![RowOf(deal_id)] =
                 UpdateDealStatus(@, "cancelled", None, None, None, None, None)]
    /\ lastPoll' = NoPoll
    /\ UNCHANGED <<balance, pc, waiting, cycleStart, pollCredits, payBalOpen>>

CbCancel(u, deal_id) == CancelDeal(u, deal_id) /\ UNCHANGED probe

\* how the writes of a completion can go: update_deal_status raises and nothing after it
\* is attempted, or it returns and the credit and the notification each succeed or fail
PollOutcomes ==
    {[updOk |-> FALSE, credOk |-> FALSE, notifyOk |-> FALSE]}
    \cup {[updOk |-> TRUE, credOk |-> c, notifyOk |-> n] : c \in BOOLEAN, n \in BOOLEAN}

Next ==
    \/ \E listOk \in BOOLEAN : PollStart(listOk)
    \/ \E txs \in PollFetches, out \in PollOutcomes, now \in Clock :
          PollDeal(txs, out.updOk, out.credOk, out.notifyOk, now)
    \/ \E u \in Users, amount \in Amounts, now \in Clock : ReceiveAmount(u, amount, now)
    \/ \E u \in Users, deal_id \in DealIds : CbPaidExt(u, deal_id)
    \/ \E u \in Users, deal_id \in DealIds, now \in Clock : CbPayBal(u, deal_id, now)
    \/ \E u \in Users, deal_id \in DealIds, now \in Clock : CbConfirm(u, deal_id, now)
    \/ \E u \in Users, deal_id \in DealIds : CbCancel(u, deal_id)

Spec == Init /\ [][Next]_vars

(***************************************************************************)
(* check_payment_for_deal as a function of the deal and of what the          *)
(* provider answers: SpecMatch draws a deal and a "result" list of records,  *)
(* and MatchCall runs the fetch and the three tiers on it.                    *)
(***************************************************************************)
MaxTime == 3       \* largest unix time in a record; the deal is created in the second before

\* a record with a hash and, where given (not None), a value, a comment and a utime
MkItem(amt, msg, time) ==
    PyDict(<< <<"hash", PyStr(<<16, 1>>)>> >>
           \o (IF IsNone(amt) THEN <<>> ELSE << <<"value", amt>> >>)
           \o (IF IsNone(msg) THEN <<>> ELSE << <<"comment", msg>> >>)
           \o (IF IsNone(time) THEN <<>> ELSE << <<"utime", time>> >>))

MatchDealAmount == 2      \* amount of the deal being matched

\* comments: none, one holding the deal's id inside other text, one holding another id
MatchMsgs == {None, PyStr(<<12>> \o IdOf(1) \o <<13>>), PyStr(<<12>> \o IdOf(2))}

\* values below, equal to and above the deal's amount, or none
MatchAmts == {None} \cup {PyInt(a) : a \in (MatchDealAmount - 1)..(MatchDealAmount + 1)}

MatchTimes == {None} \cup {PyInt(t) : t \in 1..MaxTime}

MatchItems == {MkItem(a, m, t) : a \in MatchAmts, m \in MatchMsgs, t \in MatchTimes}

\* the deal: created half a second after unix time MaxTime - 1, on the second, or with a
\* created_at that does not parse
MatchDeals ==
    {[id |-> IdOf(1), creator_id |-> 1, amount |-> MatchDealAmount, status |-> "waiting_nft",
      created_at |-> c] : c \in {IsoTime(MaxTime - 1, 500000), IsoTime(MaxTime - 1, 0), NotIso}}

ResultEnvelope(items) ==
    HttpResponse(200, TRUE, PyDict(<< <<"ok", PyBool(TRUE)>>, <<"result", PyList(items)>> >>))

InitMatch ==
    /\ InitDb
    /\ probe \in {[stage |-> "input", deal |-> d, resp |-> ResultEnvelope(items)] :
                    d \in MatchDeals, items \in BoundedSeq(MatchItems, MaxBatch)}

\* tx = await check_payment_for_deal(session, deal)
MatchCall ==
    /\ probe.stage = "input"
    /\ LET txs == FetchTransactionsForAddress(TRUE, probe.resp)
       IN  probe' = [stage |-> "matched", deal |-> probe.deal, resp |-> probe.resp,
                     txs |-> txs, index |-> CheckPaymentIndex(probe.deal, txs),
                     result |-> CheckPaymentForDeal(probe.deal, txs)]
    /\ UNCHANGED dbVars

SpecMatch == InitMatch /\ [][MatchCall]_vars

(***************************************************************************)
(* Properties of check_payment_for_deal (SpecMatch).                         *)
(***************************************************************************)
Matched == probe.stage = "matched"

\* the transaction's memo text contains the deal id
HasMemoOf(tx, deal) == tx.message.t = "str" /\ Contains(tx.message.v, deal.id)

\* the transaction's amount is at least the deal's amount
AmountSuffices(tx, deal) == tx.amount.t = "num" /\ NumGeqInt(tx.amount, deal.amount)

HasTimestamp(tx) == tx.unix_time.t = "int"

\* the transaction's timestamp is not before the deal's creation time, to the microsecond;
\* a creation time that cannot be parsed puts the floor at zero
NotBeforeCreation(tx, deal) ==
    /\ HasTimestamp(tx)
    /\ IF deal.created_at.t = "iso"
         THEN tx.unix_time.v * 1000000 >= deal.created_at.sec * 1000000 + deal.created_at.micro
         ELSE tx.unix_time.v >= 0

\* the same, with the creation time cut to whole seconds
NotBeforeCreationSecond(tx, deal) ==
    /\ HasTimestamp(tx)
    /\ IF deal.created_at.t = "iso"
         THEN tx.unix_time.v >= deal.created_at.sec
         ELSE tx.unix_time.v >= 0

Least(S) == CHOOSE i \in S : \A j \in S : i <= j

MemoHits == {i \in 1..Len(probe.txs) : HasMemoOf(probe.txs[i], probe.deal)}

RecentHits ==
    {i \in 1..Len(probe.txs) :
        AmountSuffices(probe.txs[i], probe.deal) /\ NotBeforeCreation(probe.txs[i], probe.deal)}

RecentHitsSecond ==
    {i \in 1..Len(probe.txs) :
        AmountSuffices(probe.txs[i], probe.deal)
        /\ NotBeforeCreationSecond(probe.txs[i], probe.deal)}

AmountHits == {i \in 1..Len(probe.txs) : AmountSuffices(probe.txs[i], probe.deal)}

\* C5: if some transaction's memo contains the deal id, check_payment_for_deal returns the
\* first such transaction in list order, whatever its amount and timestamp and whatever
\* amount-matching transaction stands earlier in the list.
C5_MemoMatchWins ==
    (Matched /\ MemoHits # {}) =>
        /\ probe.index = Least(MemoHits)
        /\ probe.result = probe.txs[Least(MemoHits)]

\* C5 witness: the returned memo match has too small an amount and a timestamp before the
\* deal's creation, and stands after a transaction that matches by amount and time.
C5_Witness ==
    /\ Matched
    /\ MemoHits = {2}
    /\ probe.index = 2
    /\ ~AmountSuffices(probe.txs[2], probe.deal)
    /\ HasTimestamp(probe.txs[2]) /\ ~NotBeforeCreationSecond(probe.txs[2], probe.deal)
    /\ 1 \in RecentHits

C7_AmountFallback ==
    Matched =>
        /\ (/\ MemoHits = {}
            /\ \A i \in 1..Len(probe.txs) : ~HasTimestamp(probe.txs[i])
            /\ AmountHits # {})
              => (probe.index \in AmountHits /\ probe.result = probe.txs[probe.index])
        /\ (probe.result = None) <=> (MemoHits = {} /\ RecentHitsSecond = {} /\ AmountHits = {})

\* C7 witness: no memo, no timestamps, the first amount is too small, the second is returned.
C7_Witness ==
    /\ Matched
    /\ MemoHits = {}
    /\ \A i \in 1..Len(probe.txs) : ~HasTimestamp(probe.txs[i])
    /\ AmountHits = {2}
    /\ probe.index = 2

(***************************************************************************)
(* Properties of the deal store under the poller and the handlers (Spec).    *)
(***************************************************************************)
\* this step is the poller evaluating deal d
PollerStepOn(d) == pc = "cycle" /\ lastPoll'.deal = d

\* C1: when cb_pay_bal completes an open deal, the deal's creator is credited for the deal
\* once: the poll cycle that read the deal while it was open adds no second credit, however
\* the two interleave.
C1_CreditedOnce ==
    \A d \in DealIndexes : pollCredits[d] + (IF payBalOpen[d] THEN 1 ELSE 0) <= 1

\* C2: once a deal's status is completed or cancelled, no step changes it.
C2_TerminalImmutable ==
    [][\A d \in DealIndexes :
          deals[d].status \in Terminal => deals'[d].status = deals[d].status]_vars

\* C3: the poller's completion of a deal that is completed or cancelled at the moment of
\* the write changes neither the deal nor any balance.
C3_PollerGuardsStatus ==
    [][\A d \in DealIndexes :
          (PollerStepOn(d) /\ deals[d].status \in Terminal)
              => (deals'[d] = deals[d] /\ balance' = balance)]_vars

C8_PollerCompletion ==
    [][\A d \in DealIndexes :
          (PollerStepOn(d) /\ lastPoll'.updated)
              => /\ deals'[d].status = "completed"
                 /\ deals'[d].paid_tx = lastPoll'.tx.hash
                 /\ ~IsNone(deals'[d].paid_tx)
                 /\ balance'[deals[d].creator_id] =
                       balance[deals[d].creator_id] + deals[d].amount]_vars

(***************************************************************************)
(* fetch_transactions_for_address over the outcomes of the HTTP exchange:    *)
(* SpecFetch draws whether TON_API_URL is set and one exchange, FetchCall    *)
(* runs the fetch and MatchFetched matches a deal of amount 10 against it.   *)
(***************************************************************************)
\* a record with hash h, utime 1 and the value v
ValueItem(h, v) ==
    PyDict(<< <<"hash", PyStr(<<16, h>>)>>, <<"utime", PyInt(1)>>, <<"value", v>> >>)

TenTo10Text == PyStr(<<1>> \o Zeros(10))      \* "10000000000"

FetchItems ==
    { ValueItem(1, PyNum(5, 9)),                 \* 5 * 10^9
      ValueItem(2, PyNum(1, 10)),                \* 10^10
      ValueItem(3, TenTo10Text),
      ValueItem(4, PyInt(10)),
      ValueItem(5, PyInt(5)),
      ValueItem(6, PyNum(1, 6)),                 \* 10^6, the threshold itself
      ValueItem(7, PyDict(<< <<"amount", PyInt(10)>> >>)),
      NoIdItem,
      PyStr(<<20>>),                             \* a text where a record is expected
      PyDict(<< <<"hash", PyStr(<<16, 8>>)>>, <<"utime", PyStr(<<20>>)>> >>),
      PyDict(<< <<"hash", PyStr(<<16, 9>>)>>, <<"out_msgs", PyList(<<PyInt(1)>>)>> >>) }

\* the shapes of a parsed body holding the records
Envelopes(items) ==
    { PyDict(<< <<"ok", PyBool(TRUE)>>, <<"result", PyList(items)>> >>),
      PyDict(<< <<"transactions", PyList(items)>> >>),
      PyList(items),
      PyDict(<< <<"error", PyStr(<<20>>)>>, <<"data", PyList(items)>> >>),
      PyDict(<< <<"error", PyStr(<<20>>)>> >>),
      PyStr(<<20>>) }

HttpStatuses == {200, 500}

FetchResponses ==
    {NetworkError}
    \cup {HttpResponse(st, FALSE, None) : st \in HttpStatuses}
    \cup UNION {{HttpResponse(st, TRUE, env) : st \in HttpStatuses, env \in Envelopes(items)} :
                  items \in BoundedSeq(FetchItems, MaxBatch)}

FetchDeal ==
    [id |-> IdOf(1), creator_id |-> 1, amount |-> 10, status |-> "waiting_nft",
     created_at |-> NotIso]

InitFetch ==
    /\ InitDb
    /\ probe \in {[stage |-> "input", urlSet |-> u, resp |-> r, deal |-> FetchDeal] :
                    u \in BOOLEAN, r \in FetchResponses}

\* txs = await fetch_transactions_for_address(session, MERCHANT_WALLET)
FetchCall ==
    /\ probe.stage = "input"
    /\ probe' = [stage |-> "fetched", urlSet |-> probe.urlSet, resp |-> probe.resp,
                 deal |-> probe.deal,
                 txs |-> FetchTransactionsForAddress(probe.urlSet, probe.resp)]
    /\ UNCHANGED dbVars

\* the three loops of check_payment_for_deal over the fetched list
MatchFetched ==
    /\ probe.stage = "fetched"
    /\ probe' = [stage |-> "matched", urlSet |-> probe.urlSet, resp |-> probe.resp,
                 deal |-> probe.deal, txs |-> probe.txs,
                 index |-> CheckPaymentIndex(probe.deal, probe.txs),
                 result |-> CheckPaymentForDeal(probe.deal, probe.txs)]
    /\ UNCHANGED dbVars

NextFetch == FetchCall \/ MatchFetched

SpecFetch == InitFetch /\ [][NextFetch]_vars

(***************************************************************************)
(* Properties of fetch_transactions_for_address (SpecFetch).                 *)
(***************************************************************************)
Fetched == probe.stage \in {"fetched", "matched"}

\* x > n, for a number x and an integer n below 10^BigExp
NumExceedsInt(x, n) == x.m # 0 /\ (x.e >= BigExp \/ NumVal(x) > n)

\* x / 10^9
DividedBy10To9(x) == PyNum(x.m, x.e - 9)

\* the numeric value of the raw record a transaction was normalised from, <<FALSE, None>>
\* if it has none
RawValue(tx) == Float(ItemAmt(tx.raw))

\* the records of the body are exactly these, and the fetch was a configured HTTP 200
FetchedExactly(items) ==
    /\ probe.urlSet
    /\ probe.resp = HttpResponse(200, TRUE,
                       PyDict(<< <<"ok", PyBool(TRUE)>>, <<"result", PyList(items)>> >>))

\* C9: a raw value above 10^6 is normalised to the raw value divided by 10^9; so a raw
\* 5 * 10^9 does not satisfy the amount tiers of a deal of amount 10, and a raw 10^10 does.
C9_MinorUnitsScaled ==
    /\ Fetched =>
          \A i \in 1..Len(probe.txs) :
              (RawValue(probe.txs[i])[1] /\ NumExceedsInt(RawValue(probe.txs[i])[2], 1000000))
                  => probe.txs[i].amount = DividedBy10To9(RawValue(probe.txs[i])[2])
    /\ (probe.stage = "matched" /\ FetchedExactly(<<ValueItem(1, PyNum(5, 9))>>))
          => probe.result = None
    /\ (probe.stage = "matched" /\ FetchedExactly(<<ValueItem(2, PyNum(1, 10))>>))
          => probe.result # None

\* C10: every failure outcome of the exchange (a network error or timeout, a status other
\* than 200 whatever the body, an unparsable body) yields the empty list.
C10_FailureYieldsEmpty ==
    (Fetched /\ (probe.resp.kind = "error" \/ probe.resp.status # 200 \/ ~probe.resp.parsable))
        => probe.txs = <<>>

\* C11: no returned transaction has a null hash: a record from which no hash can be
\* extracted is left out of the list, and the other records of the batch are returned.
C11_HashlessDropped ==
    Fetched => \A i \in 1..Len(probe.txs) : ~IsNone(probe.txs[i].hash)

(***************************************************************************)
(* Further properties of the deal store under the poller and the handlers   *)
(* (Spec).                                                                   *)
(***************************************************************************)
\* C12: when the fetch for a deal yields the empty list (the provider answered with no
\* records, was unreachable, or TON_API_URL is not set), the poller's evaluation of the deal
\* changes no deal and no balance: a deal that was open stays open with the same fields.
C12_EmptyFetchNoEffect ==
    [][\A d \in DealIndexes :
          (PollerStepOn(d) /\ lastPoll'.txs = <<>>)
              => (deals' = deals /\ balance' = balance /\ pollCredits' = pollCredits)]_vars

\* C12 witness: the poller has just evaluated an open deal against an empty list, and the
\* deal is still open.
C12_Witness ==
    /\ lastPoll.deal # 0
    /\ lastPoll.txs = <<>>
    /\ lastPoll.start[lastPoll.deal] = "waiting_nft"
    /\ deals[lastPoll.deal].status = "waiting_nft"

(***************************************************************************)
(* The poller on its own (SpecPoller): deals are created, no other handler   *)
(* runs.  probe keeps a history of the poller: tick flips at every listing   *)
(* the loop attempts, listed tells whether the latest listing returned, and  *)
(* notified whether the notification of the latest evaluation was delivered. *)
(* The event loop resumes the task whenever its sleep or its fetch is over,   *)
(* hence the weak fairness of both steps.                                     *)
(***************************************************************************)
InitPoller ==
    /\ InitDb
    /\ probe = [stage |-> "poller", tick |-> 0, listed |-> TRUE, notified |-> TRUE]

PollStartCounted(listOk) ==
    /\ PollList(listOk)
    /\ probe' = [probe EXCEPT !.tick = 1 - @, !.listed = listOk]

PollDealNotified(txs, updOk, credOk, notifyOk, now) ==
    /\ PollEvaluate(txs, updOk, credOk, notifyOk, now)
    /\ probe' = [probe EXCEPT !.notified = notifyOk]

NextPoller ==
    \/ \E listOk \in BOOLEAN : PollStartCounted(listOk)
    \/ \E txs \in PollFetches, out \in PollOutcomes, now \in Clock :
          PollDealNotified(txs, out.updOk, out.credOk, out.notifyOk, now)
    \/ \E u \in Users, amount \in Amounts, now \in Clock : ReceiveAmount(u, amount, now)

PollerFair ==
    /\ WF_vars(\E listOk \in BOOLEAN : PollStartCounted(listOk))
    /\ WF_vars(\E txs \in PollFetches, out \in PollOutcomes, now \in Clock :
                  PollDealNotified(txs, out.updOk, out.credOk, out.notifyOk, now))

SpecPoller == InitPoller /\ [][NextPoller]_vars /\ PollerFair

(***************************************************************************)
(* Properties of the poller (SpecPoller).                                    *)
(***************************************************************************)
\* deal d is in the list the running cycle still has to evaluate
InCycleList(d) == pc = "cycle" /\ \E k \in 1..Len(waiting) : waiting[k].id = IdOf(d)

\* C13: no failure inside a cycle ends the poll loop: whether the listing, a fetch or the
\* completion of a deal fails, the loop attempts its listing again and again, and every
\* deal in the list of a running cycle is eventually evaluated, also after the completion
\* of an earlier deal of the list has failed.
C13_LoopGoesOn ==
    /\ []<>(probe.tick = 0)
    /\ []<>(probe.tick = 1)
    /\ \A d \in 1..MaxDeals : InCycleList(d) ~> (lastPoll.deal = d)

\* C13 witness: the completion of a matched deal has just failed (update_deal_status
\* raised) and the cycle still has a deal to evaluate.
C13_Witness ==
    /\ lastPoll.matched /\ ~lastPoll.updated
    /\ pc = "cycle" /\ waiting # <<>>
    /\ deals[lastPoll.deal].status = "waiting_nft"

\* the list fetched for the deal just evaluated holds a transaction that matches the deal by
\* memo or by amount (the amount-and-time tier asks for the amount too)
FetchMatches ==
    \E i \in 1..Len(lastPoll.txs) :
        \/ HasMemoOf(lastPoll.txs[i], deals[lastPoll.deal])
        \/ AmountSuffices(lastPoll.txs[i], deals[lastPoll.deal])

\* the provider reports a payment for the deal being evaluated, and the store works: the
\* latest listing returned and update_deal_status did not raise
PaidAndStored ==
    /\ probe.listed
    /\ lastPoll.deal # 0 => (FetchMatches /\ (lastPoll.matched => lastPoll.updated))

\* C14: if from some point on every fetch reports a transaction matching the deal under
\* evaluation and the store does not fail, and no handler acts on the deals, then under fair
\* scheduling of the poller every open deal eventually reaches status completed.
C14_PaidDealCompletes ==
    \A d \in 1..MaxDeals :
        <>[]PaidAndStored
            => ((d \in DealIndexes /\ deals[d].status = "waiting_nft")
                    ~> (d \in DealIndexes /\ deals[d].status = "completed"))

\* C14 witness: the poller has just completed a deal that was open at the start of the
\* cycle, from a fetched list holding a matching transaction, after a listing that returned.
C14_Witness ==
    /\ probe.stage = "poller" /\ probe.listed
    /\ lastPoll.updated
    /\ FetchMatches
    /\ lastPoll.start[lastPoll.deal] = "waiting_nft"
    /\ deals[lastPoll.deal].status = "completed"

(***************************************************************************)
(* Properties of the deal store under the poller and the handlers (Spec),    *)
(* continued.                                                                *)
(***************************************************************************)
\* C15: a deal in status paid_pending takes part in every poll cycle like an open deal:
\* whenever a cycle starts, each paid_pending deal is in the list the cycle evaluates.
C15_PaidPendingPolled ==
    [][(pc = "sleep" /\ pc' = "cycle")
          => \A d \in DealIndexes :
                deals[d].status = "paid_pending"
                    => \E k \in 1..Len(waiting') : waiting'[k].id = deals[d].id]_vars

\* C16: completion is never partial: the step that makes a deal completed, whether taken by
\* the poller, cb_pay_bal or cb_confirm, credits the deal's creator with the deal's amount
\* (when the creator pays the deal from the creator's own balance, the debit and the credit
\* cancel).
C16_CompletionCredits ==
    [][\A d \in DealIndexes :
          (deals[d].status # "completed" /\ deals'[d].status = "completed")
              => \/ balance'[deals[d].creator_id] =
                       balance[deals[d].creator_id] + deals[d].amount
                 \/ /\ deals'[d].paid_tx = InternalBalance
                    /\ deals'[d].buyer_id = PyInt(deals[d].creator_id)
                    /\ balance' = balance]_vars

\* C17: a deal that is not completed has neither paid_tx nor buyer_id set.
C17_PaidFieldsOnlyWhenCompleted ==
    \A d \in DealIndexes :
        deals[d].status # "completed"
            => (IsNone(deals[d].paid_tx) /\ IsNone(deals[d].buyer_id))

\* C18: the poller completes and credits a deal at most once, over any number of cycles and
\* whatever the handlers do to the deal: it matches a deal only if the deal was open when
\* the cycle read its list and the poller has not credited it before, its completion leaves
\* the deal not open, and a deal that is not open never becomes open again.
C18_PollerCompletesOnce ==
    [][\A d \in DealIndexes :
          /\ (PollerStepOn(d) /\ lastPoll'.matched)
                => (pollCredits[d] = 0 /\ IsWaiting(cycleStart[d]))
          /\ (PollerStepOn(d) /\ lastPoll'.updated) => ~IsWaiting(deals'[d].status)
          /\ ~IsWaiting(deals[d].status) => ~IsWaiting(deals'[d].status)
          /\ pollCredits'[d] <= 1]_vars

\* C18 witness: a deal the poller has completed and credited was then marked paid_pending
\* by cb_paid_ext, and a later cycle, evaluating another deal, was handed the very
\* transaction the deal was completed with.
C18_Witness ==
    /\ lastPoll.deal # 0
    /\ \E d \in DOMAIN lastPoll.start :
          /\ d # lastPoll.deal
          /\ pollCredits[d] = 1
          /\ lastPoll.start[d] = "paid_pending"
          /\ \E i \in 1..Len(lastPoll.txs) :
                /\ lastPoll.txs[i].hash = deals[d].paid_tx
                /\ HasMemoOf(lastPoll.txs[i], deals[d])

\* C19: cb_pay_bal on a deal that is already completed or cancelled is a no-op: it debits
\* no buyer, credits no creator and leaves the deal unchanged.
C19_PayBalOnTerminalNoop ==
    [][\A u \in Users, deal_id \in DealIds, now \in Clock :
          (/\ RowOf(deal_id) # 0
           /\ deals[RowOf(deal_id)].status \in Terminal
           /\ CbPayBal(u, deal_id, now))
              => (deals' = deals /\ balance' = balance)]_vars

(***************************************************************************)
(* Properties of the poller (SpecPoller), continued.                         *)
(***************************************************************************)
\* C20: whether the notification of an automatic completion is delivered or fails makes no
\* difference: every evaluation the poller makes is the step it would make with either
\* outcome of the notification (same deals, paid_tx and balances), and the poller goes on
\* to the rest of its list.
C20_NotificationHarmless ==
    [][\A d \in DealIndexes :
          PollerStepOn(d)
              => /\ \A notifyOk \in BOOLEAN :
                       \E txs \in PollFetches, out \in PollOutcomes, now \in Clock :
                           PollEvaluate(txs, out.updOk, out.credOk, notifyOk, now)
                 /\ waiting' = Tail(waiting)]_vars

\* C20 witness: the poller has completed and credited a deal, the notification failed, the
\* deal is completed with its paid_tx and the cycle goes on with its next deal.
C20_Witness ==
    /\ probe.stage = "poller" /\ ~probe.notified
    /\ lastPoll.updated /\ lastPoll.credited
    /\ deals[lastPoll.deal].status = "completed"
    /\ deals[lastPoll.deal].paid_tx = lastPoll.tx.hash
    /\ ~IsNone(lastPoll.tx.hash)
    /\ pc = "cycle" /\ waiting # <<>>

\* C21: a fetched transaction is not set aside once a deal has been completed with it:
\* whenever the list fetched for an open deal holds a transaction that satisfies the deal by
\* memo or by amount, the poller matches the deal, also when that transaction is already
\* the paid_tx of another deal; so two deals can be completed with one transaction.
C21_TransactionReused ==
    [][\A d \in DealIndexes :
          (/\ PollerStepOn(d)
           /\ IsWaiting(deals[d].status)
           /\ \E i \in 1..Len(lastPoll'.txs) :
                 \/ HasMemoOf(lastPoll'.txs[i], deals[d])
                 \/ AmountSuffices(lastPoll'.txs[i], deals[d]))
              => /\ lastPoll'.matched
                 /\ lastPoll'.updated => deals'[d].status = "completed"]_vars

\* C21 witness: two deals of different creators are both completed with the same, non-null
\* paid_tx, and the poller has credited each creator for its deal.
C21_Witness ==
    /\ Len(deals) >= 2
    /\ deals[1].creator_id # deals[2].creator_id
    /\ deals[1].status = "completed" /\ deals[2].status = "completed"
    /\ ~IsNone(deals[1].paid_tx) /\ deals[1].paid_tx = deals[2].paid_tx
    /\ pollCredits[1] = 1 /\ pollCredits[2] = 1
    /\ balance[deals[1].creator_id] >= deals[1].amount
    /\ balance[deals[2].creator_id] >= deals[2].amount

(***************************************************************************)
(* Balances under deals of any amount (SpecAmount): deals are created with   *)
(* any amount receive_amount accepts, paid from a balance by cb_pay_bal and  *)
(* completed by the poller.  Repeated payments of one deal move money        *)
(* without end, so the payments are followed while the balances stay within  *)
(* MaxBalance of zero.                                                       *)
(***************************************************************************)
MaxBalance == 2      \* largest balance, and largest debt, followed

BalanceRange == (0 - MaxBalance)..MaxBalance

PayBalInRange(u, deal_id, now) ==
    /\ CbPayBal(u, deal_id, now)
    /\ \A v \in Users : balance'[v] \in BalanceRange

NextAmount ==
    \/ \E u \in Users, amount \in SignedAmounts, now \in Clock : ReceiveAmount(u, amount, now)
    \/ \E u \in Users, deal_id \in DealIds, now \in Clock : PayBalInRange(u, deal_id, now)
    \/ \E listOk \in BOOLEAN : PollStart(listOk)
    \/ \E txs \in PollFetches, out \in PollOutcomes, now \in Clock :
          PollDeal(txs, out.updOk, out.credOk, out.notifyOk, now)

SpecAmount == Init /\ [][NextAmount]_vars

\* C22: after any sequence of deal creations, payments from a balance and completions by
\* the poller, no user's balance is negative.
C22_BalancesNonNegative == \A u \in Users : balance[u] >= 0

(***************************************************************************)
(* The creator's decisions (SpecCreator): deals are created, marked paid by  *)
(* cb_paid_ext, and confirmed or cancelled by any user on any deal id.       *)
(* probe keeps the latest confirm or cancel callback: which of the two, the  *)
(* user who pressed, the row of the deal id (0 for an id no deal has), and   *)
(* tick, which flips at every such callback.                                 *)
(***************************************************************************)
InitCreator ==
    /\ InitDb
    /\ probe = [stage |-> "callback", op |-> "none", user |-> 0, row |-> 0, tick |-> 0]

CbConfirmLogged(u, deal_id, now) ==
    /\ ConfirmDeal(u, deal_id, now)
    /\ probe' = [stage |-> "callback", op |-> "confirm", user |-> u, row |-> RowOf(deal_id),
                 tick |-> 1 - probe.tick]

CbCancelLogged(u, deal_id) ==
    /\ CancelDeal(u, deal_id)
    /\ probe' = [stage |-> "callback", op |-> "cancel", user |-> u, row |-> RowOf(deal_id),
                 tick |-> 1 - probe.tick]

NextCreator ==
    \/ \E u \in Users, amount \in Amounts, now \in Clock : ReceiveAmount(u, amount, now)
    \/ \E u \in Users, deal_id \in DealIds : CbPaidExt(u, deal_id)
    \/ \E u \in Users, deal_id \in DealIds, now \in Clock : CbConfirmLogged(u, deal_id, now)
    \/ \E u \in Users, deal_id \in DealIds : CbCancelLogged(u, deal_id)

SpecCreator == InitCreator /\ [][NextCreator]_vars

\* C23: a confirm or cancel callback from a user who is not the deal's creator, or for a
\* deal id no deal has, changes no deal and no balance; such a callback changes a deal's
\* status only when the deal's creator pressed it, and then only that deal's.
C23_OnlyCreatorDecides ==
    [][probe'.tick # probe.tick
          => /\ (probe'.row = 0 \/ probe'.user # deals[probe'.row].creator_id)
                   => (deals' = deals /\ balance' = balance)
             /\ \A d \in DealIndexes :
                   deals'[d].status # deals[d].status
                       => (probe'.row = d /\ probe'.user = deals[d].creator_id)]_vars

\* C23 witness: the latest callback was a cancel pressed on an existing deal by a user who
\* is not its creator, and the deal is still open.
C23_Witness ==
    /\ probe.stage = "callback" /\ probe.op = "cancel"
    /\ probe.row # 0
    /\ probe.user # deals[probe.row].creator_id
    /\ deals[probe.row].status = "waiting_nft"

====
